---- MODULE Spec2Model ----
(***************************************************************************)
(* Model of the PCA9685 I2C PWM driver                                     *)
(* (src/drivers/pca9685_ucan/pca9685_ucan.cpp).                            *)
(*                                                                         *)
(* The driver object's fields are the variables whose names start with an  *)
(* underscore.  The I2C bus, the uORB topic and the work queue are the     *)
(* environment.  Every handler (init, RunImpl, custom_method) is one       *)
(* action; the transfers it issues are recorded, in order, in bus.         *)
(***************************************************************************)
EXTENDS Integers, Sequences, FiniteSets, TLC

\* ------------------------------------------------------------------------
\* Program constants
\* ------------------------------------------------------------------------
PCA9685_MODE1 == 0
PCA9685_PRESCALE == 254
LED0_ON_L == 6
NUMBER_PWM_CHANNELS == 16
PWM_PERIOD_MIN_US == 656
PWM_PERIOD_MAX_US == 41666
OK == 0
IOX_MODE_ON == "IOX_MODE_ON"
IOX_MODE_TEST_OUT == "IOX_MODE_TEST_OUT"

Channels == 0 .. (NUMBER_PWM_CHANNELS - 1)
Byte(x) == x % 256
U16(x) == x % 65536

\* ------------------------------------------------------------------------
\* Bounds of the model
\* ------------------------------------------------------------------------
\* the error counter is a 64-bit event count; failing transfers are only
\* injected while it stays at or below this value
MaxErrors == 2

\* ------------------------------------------------------------------------
\* IEEE-754 binary32 arithmetic, as far as the driver uses it.
\* A positive normal float is [cls |-> "num", m, e] with 2^23 <= m < 2^24
\* and value m * 2^e; FZero and FInf are +0 and +infinity.
\* ------------------------------------------------------------------------
FZero == [cls |-> "zero", m |-> 0, e |-> 0]
FInf == [cls |-> "inf", m |-> 0, e |-> 0]
FHidden == 2 ^ 23

RECURSIVE FShiftUp(_, _)
FShiftUp(m, e) == IF m >= FHidden THEN [cls |-> "num", m |-> m, e |-> e]
                  ELSE FShiftUp(2 * m, e - 1)

\* n * 2^e (n >= 0 an integer below 2^31) rounded to binary32, ties to even
FRound(n, e) ==
  IF n = 0 THEN FZero
  ELSE IF n < 2 * FHidden THEN FShiftUp(n, e)
  ELSE LET k == CHOOSE j \in 1 .. 8 : n \div (2 ^ j) < 2 * FHidden
                                      /\ n \div (2 ^ (j - 1)) >= 2 * FHidden
           q == n \div (2 ^ k)
           r == n % (2 ^ k)
           half == 2 ^ (k - 1)
           up == r > half \/ (r = half /\ q % 2 = 1)
           q1 == IF up THEN q + 1 ELSE q
       IN IF q1 = 2 * FHidden THEN [cls |-> "num", m |-> FHidden, e |-> e + k + 1]
          ELSE [cls |-> "num", m |-> q1, e |-> e + k]

\* (float)n for an integer n
FFromInt(n) == FRound(n, 0)

RECURSIVE FDivBits(_, _, _, _)
FDivBits(q, r, d, k) ==
  IF q >= FHidden THEN [q |-> q, r |-> r, k |-> k]
  ELSE IF 2 * r >= d THEN FDivBits(2 * q + 1, 2 * r - d, d, k + 1)
  ELSE FDivBits(2 * q, 2 * r, d, k + 1)

\* x / y, correctly rounded; x / +0 is +infinity for x > 0
FDiv(x, y) ==
  IF x.cls = "inf" THEN FInf
  ELSE IF y.cls = "inf" THEN FZero
  ELSE IF y.cls = "zero" THEN FInf
  ELSE IF x.cls = "zero" THEN FZero
  ELSE LET b == FDivBits(x.m \div y.m, x.m % y.m, y.m, 0)
           up == 2 * b.r > y.m \/ (2 * b.r = y.m /\ b.q % 2 = 1)
           q1 == IF up THEN b.q + 1 ELSE b.q
           e == x.e - y.e - b.k
       IN IF q1 = 2 * FHidden THEN [cls |-> "num", m |-> FHidden, e |-> e + 1]
          ELSE [cls |-> "num", m |-> q1, e |-> e]

\* x * 2^k (exact: the driver's exponents stay far from the format's limits)
FMulPow2(x, k) == IF x.cls = "num" THEN [x EXCEPT !.e = @ + k] ELSE x

\* the integer part of a finite x >= 0 when it is below 2^31, else 2^31
FTrunc(x) ==
  IF x.cls = "zero" THEN 0
  ELSE IF x.e >= 8 THEN 2147483647
  ELSE IF x.e >= 0 THEN x.m * (2 ^ x.e)
  ELSE IF x.e <= -24 THEN 0
  ELSE x.m \div (2 ^ (0 - x.e))

\* What a float -> unsigned conversion yields when the truncated value does
\* not fit the destination (undefined behaviour): it depends on the build.
\*   "wrap": convert to a 32-bit integer and keep the low bits; an infinite
\*           or too large operand gives the low bits of 0x80000000, i.e. 0
\*   "sat" : saturating conversion, all ones
Builds == {"wrap", "sat"}
FCastOutOfRange(x, bits, bld) ==
  IF bld = "sat" THEN 2 ^ bits - 1
  ELSE IF x.cls = "inf" \/ x.e >= 8 THEN 0
  ELSE FTrunc(x) % (2 ^ bits)

\* (uintN_t)x for x >= 0
FToUint(x, bits, bld) ==
  IF x.cls # "inf" /\ FTrunc(x) < 2 ^ bits THEN FTrunc(x)
  ELSE FCastOutOfRange(x, bits, bld)

RECURSIVE FStrip(_, _)
FStrip(m, e) == IF m % 2 = 0 THEN FStrip(m \div 2, e + 1) ELSE [m |-> m, e |-> e]

\* the operands of x + y or x - y as integers in a common unit 2^e
FAlign(x, y) ==
  LET sx == IF x.cls = "zero" THEN [m |-> 0, e |-> y.e] ELSE FStrip(x.m, x.e)
      sy == IF y.cls = "zero" THEN [m |-> 0, e |-> sx.e] ELSE FStrip(y.m, y.e)
      e == IF sx.e < sy.e THEN sx.e ELSE sy.e
  IN [x |-> sx.m * (2 ^ (sx.e - e)), y |-> sy.m * (2 ^ (sy.e - e)), e |-> e]

\* x + y and x - y (for x >= y >= 0), correctly rounded
FAdd(x, y) == LET a == FAlign(x, y) IN FRound(a.x + a.y, a.e)
FSub(x, y) == LET a == FAlign(x, y) IN FRound(a.x - a.y, a.e)

\* 0.5f
FHalf == [cls |-> "num", m |-> FHidden, e |-> -24]

\* ------------------------------------------------------------------------
\* The I2C transport.  A handler's transfers are numbered 1, 2, ... in the
\* order it issues them; an oracle gives the return code of each.  The bus
\* log of a handler holds its transfers and its sleeps, in program order.
\* ------------------------------------------------------------------------
MaxXfer == NUMBER_PWM_CHANNELS
\* -EIO, -ETIMEDOUT
ErrCodes == {-5, -110}
AllOk == [k \in 1 .. MaxXfer |-> OK]
FailAt(j, c) == [k \in 1 .. MaxXfer |-> IF k = j THEN c ELSE OK]
FailAll(c) == [k \in 1 .. MaxXfer |-> c]
\* transports of a tick or of an administrative command
Oracles == {AllOk, FailAt(1, -5), FailAt(2, -110), FailAll(-5)}
\* transports of a call of init or setPWMFreq, which issue up to 7 transfers
\* and stop at the first failure
InitXfers == 7
InitOracles == {AllOk} \cup {FailAt(j, c) : j \in 1 .. InitXfers, c \in ErrCodes}

IsXfer(t) == t.kind = "xfer"
Xfers(b) == SelectSeq(b, IsXfer)

\* the running context of a handler: transfers issued so far, the error
\* counter, the setPin calls made so far, the last return code, the byte
\* last read
Ctx(errs) == [bus |-> << >>, errs |-> errs, pins |-> << >>, ret |-> OK, value |-> 0]

\* I2C::transfer(send, send_len, recv, recv_len); rx is what the chip answers
\* when the transfer succeeds
transfer(c, send, rx, orc) ==
  LET r == orc[Len(Xfers(c.bus)) + 1]
  IN [c EXCEPT !.bus = Append(@, [kind |-> "xfer", send |-> send, recv_len |-> Len(rx),
                                   recv |-> IF r = OK THEN rx ELSE << >>, ret |-> r]),
               !.ret = r]

\* perf_count that counts a failure twice
perf_count_twice(c) == [c EXCEPT !.errs = @ + 2]

\* perf_count(_comms_errors)
perf_count(c) == [c EXCEPT !.errs = @ + 1]

\* usleep(us)
usleep(c, us) == [c EXCEPT !.bus = Append(@, [kind |-> "usleep", us |-> us])]

\* log entries, for stating what a handler did
Write(bytes, r) == [kind |-> "xfer", send |-> bytes, recv_len |-> 0, recv |-> << >>, ret |-> r]
Sleep(us) == [kind |-> "usleep", us |-> us]
IsFailed(t) == t.kind = "xfer" /\ t.ret # OK

\* setPWM with the two bytes of each tick count swapped
setPWM_bigendian(c, num, on, off, orc) ==
  LET msg == << Byte(LED0_ON_L + 4 * num), Byte(on \div 256), Byte(on),
                Byte(off \div 256), Byte(off) >>
      t == transfer(c, msg, << >>, orc)
  IN IF t.ret # OK THEN perf_count(t) ELSE t

\* setPWM with the channel registers based at MODE1
setPWM_mode1(c, num, on, off, orc) ==
  LET msg == << Byte(PCA9685_MODE1 + 4 * num), Byte(on), Byte(on \div 256),
                Byte(off), Byte(off \div 256) >>
      t == transfer(c, msg, << >>, orc)
  IN IF t.ret # OK THEN perf_count(t) ELSE t

\* PCA9685::setPWM
setPWM(c, num, on, off, orc) ==
  LET msg == << Byte(LED0_ON_L + 4 * num), Byte(on), Byte(on \div 256),
                Byte(off), Byte(off \div 256) >>
      t == transfer(c, msg, << >>, orc)
  IN IF t.ret # OK THEN perf_count(t) ELSE t

\* setPinTicks without the clamp of lines 290-292
setPinTicks_noclamp(val) ==
  IF val = 4095 THEN << 4096, 0 >>
  ELSE IF val = 0 THEN << 0, 4096 >>
  ELSE << 0, val >>

\* the (on, off) ticks setPin asks setPWM for
setPinTicks(val) ==
  LET v == IF val > 4095 THEN 4095 ELSE val
  IN IF v = 4095 THEN << 4096, 0 >>
     ELSE IF v = 0 THEN << 0, 4096 >>
     ELSE << 0, v >>

\* PCA9685::setPin
setPin(c, num, val, orc) ==
  LET t == setPinTicks(val)
  IN setPWM([c EXCEPT !.pins = Append(@, << num, val >>)], num, t[1], t[2], orc)

\* write8 that does not count a failed transfer
write8_nocount(c, addr, value, orc) == transfer(c, << addr, value >>, << >>, orc)

\* PCA9685::write8
write8(c, addr, value, orc) ==
  LET t == transfer(c, << addr, value >>, << >>, orc)
  IN IF t.ret # OK THEN perf_count(t) ELSE t

\* PCA9685::read8; chip is the byte the chip answers with
read8(c, addr, orc, chip) ==
  LET t1 == transfer(c, << addr >>, << >>, orc)
  IN IF t1.ret # OK THEN perf_count(t1)
     ELSE LET t2 == transfer(t1, << >>, << chip >>, orc)
          IN IF t2.ret # OK THEN perf_count(t2)
             ELSE [t2 EXCEPT !.value = chip]

\* PCA9685::reset
reset(c, orc) == write8(c, PCA9685_MODE1, 0, orc)

\* c | mask for bytes, bit by bit
RECURSIVE BitOr(_, _, _)
BitOr(a, b, n) ==
  IF n = 0 THEN 0
  ELSE (IF a % 2 = 1 \/ b % 2 = 1 THEN 1 ELSE 0) + 2 * BitOr(a \div 2, b \div 2, n - 1)
RECURSIVE BitAnd(_, _, _)
BitAnd(a, b, n) ==
  IF n = 0 THEN 0
  ELSE (IF a % 2 = 1 /\ b % 2 = 1 THEN 1 ELSE 0) + 2 * BitAnd(a \div 2, b \div 2, n - 1)

\* prescale without the 0.5 added before the conversion
prescale_truncated(freq, bld) ==
  LET p0 == FFromInt(25000000)
      p1 == FDiv(p0, FFromInt(4096))
      p2 == FDiv(p1, freq)
      p3 == FSub(p2, FFromInt(1))
  IN FToUint(p3, 8, bld)

\* the prescaler byte setPWMFreq computes for freq (a float with
\* 25000000 / 4096 / freq >= 1)
prescale(freq, bld) ==
  LET p0 == FFromInt(25000000)
      p1 == FDiv(p0, FFromInt(4096))
      p2 == FDiv(p1, freq)
      p3 == FSub(p2, FFromInt(1))
  IN FToUint(FAdd(p3, FHalf), 8, bld)

\* sleepmode that keeps the restart bit
sleepmode_keeprestart(oldmode) == BitOr(oldmode, 16, 8)

\* the mode bytes setPWMFreq writes
sleepmode(oldmode) == BitOr(BitAnd(oldmode, 127, 8), 16, 8)
wakemode(oldmode) == Byte(BitOr(oldmode, 161, 8))

\* PCA9685::setPWMFreq
setPWMFreq(c, freq, orc, chip, bld) ==
  LET r == read8(c, PCA9685_MODE1, orc, chip)
      oldmode == r.value
      w1 == write8(r, PCA9685_MODE1, sleepmode(oldmode), orc)
      w2 == write8(w1, PCA9685_PRESCALE, prescale(freq, bld), orc)
      w3 == write8(w2, PCA9685_MODE1, oldmode, orc)
      w4 == write8(usleep(w3, 5000), PCA9685_MODE1, wakemode(oldmode), orc)
  IN IF r.ret # OK THEN r
     ELSE IF w1.ret # OK THEN w1
     ELSE IF w2.ret # OK THEN w2
     ELSE IF w3.ret # OK THEN w3
     ELSE w4

\* ------------------------------------------------------------------------
\* State
\* ------------------------------------------------------------------------
VARIABLES
  _mode,                \* enum IOX_MODE
  _i2cpwm_interval,     \* delay handed to ScheduleDelayed
  _comms_errors,        \* perf counter of failed transfers
  _pca_pwm,             \* last command copied from the topic
  _pwm_period_us,
  _pwm_freq,
  _test_pwm,
  _current_values,      \* per channel, the value last handed to setPin
  _mode_on_initialized,
  _updated,
  orb_data,             \* pca_pwm topic: the last published command
  orb_fresh,            \* pca_pwm topic: published since the last orb_copy
  sched,                \* the work item: idle, armed (timer running) or runnable
  life,                 \* "constructed", "started" or "init_failed"
  op,                   \* the handler the last step ran, "none" if it ran none
  bus,                  \* the transfers and sleeps of that handler, in order
  pins,                 \* its setPin calls (num, val), in order
  ret,                  \* the last value returned by init or by a direct call
  build,                \* how this build converts out-of-range floats
  call                  \* a direct call of one driver function (unit runs)

vars == << _mode, _i2cpwm_interval, _comms_errors, _pca_pwm, _pwm_period_us,
           _pwm_freq, _test_pwm, _current_values, _mode_on_initialized,
           _updated, orb_data, orb_fresh, sched, life, op, bus, pins, ret,
           build, call >>

driver == << _mode, _i2cpwm_interval, _pca_pwm, _pwm_period_us, _pwm_freq,
             _test_pwm, _current_values, _mode_on_initialized, _updated >>

\* ------------------------------------------------------------------------
\* Inputs
\* ------------------------------------------------------------------------
\* a pca_pwm message
Uniform(p, w) == [pwm_period |-> p, pulse_width |-> [i \in Channels |-> w]]
Mixed(p) == [pwm_period |-> p,
             pulse_width |-> [i \in Channels |->
                CASE i = 0 -> 40000
                  [] i = 1 -> p
                  [] i = 2 -> 0
                  [] i = 3 -> 1
                  [] i = 4 -> 3
                  [] i = 5 -> 50000
                  [] OTHER -> 10000]]
Commands == { Mixed(20000),
              Uniform(655, 40000), Uniform(656, 40000),
              Uniform(41666, 65535), Uniform(41667, 40000) }

\* _pca_pwm() value-initialised
ZeroCommand == Uniform(0, 0)

\* values the uninitialised uint16_t read by the constructor may hold
IndeterminateU16 == {0, 20000}

\* What the source leaves to the build and to the heap: the out-of-range cast
\* and the indeterminate value.  The first decides duties only and the second
\* the delay only, so each is varied once.
Boots == { [cast |-> "wrap", heap |-> 0], [cast |-> "sat", heap |-> 20000] }

\* answers of the chip to a read of MODE1
ChipBytes == {0, 17, 145}

\* ------------------------------------------------------------------------
\* PCA9685::PCA9685: the state after construction.  _i2cpwm_interval is
\* initialised from _pwm_period_us, which is declared after it and so does
\* not hold its default 20000 yet.
\* ------------------------------------------------------------------------
Constructed ==
  /\ _mode = IOX_MODE_ON
  /\ \E b \in Boots : build = b.cast /\ _i2cpwm_interval = b.heap
  /\ _comms_errors = 0
  /\ _pca_pwm = ZeroCommand
  /\ _pwm_period_us = 20000
  /\ _pwm_freq = FFromInt(50)
  /\ _test_pwm = 0
  /\ _current_values = [i \in Channels |-> 0]
  /\ _mode_on_initialized = FALSE
  /\ _updated = FALSE
  /\ orb_data = ZeroCommand
  /\ orb_fresh = FALSE
  /\ sched = [state |-> "idle", delay |-> 0]
  /\ life = "constructed"
  /\ op = "none"
  /\ bus = << >>
  /\ pins = << >>
  /\ ret = OK

Init == Constructed /\ call = [fn |-> "none"]

\* ------------------------------------------------------------------------
\* The work item.  It is idle while its handler runs, armed while the timer
\* of ScheduleDelayed runs, runnable once the work queue is to call RunImpl.
\* ------------------------------------------------------------------------
ScheduleNow == [state |-> "runnable", delay |-> 0]

\* a tick that ends without rescheduling
ScheduleDelayed_dropped(delay) == [state |-> "idle", delay |-> 0]

ScheduleDelayed(delay) == [state |-> "armed", delay |-> delay]

\* ------------------------------------------------------------------------
\* PCA9685::init
\* ------------------------------------------------------------------------
init(c, i2c_ret, orc, chip, freq, bld) ==
  IF i2c_ret # OK THEN [c EXCEPT !.ret = i2c_ret]
  ELSE LET r == reset(c, orc)
       IN IF r.ret # OK THEN r
          ELSE setPWMFreq(r, freq, orc, chip, bld)

DriverInit ==
  /\ life = "constructed"
  /\ \E i2c_ret \in {OK} \cup ErrCodes, orc \in InitOracles, chip \in ChipBytes :
       \E c \in {init(Ctx(_comms_errors), i2c_ret, orc, chip, _pwm_freq, build)} :
          /\ c.errs <= MaxErrors
          /\ _comms_errors' = c.errs
          /\ bus' = c.bus
          /\ pins' = c.pins
          /\ ret' = c.ret
          /\ sched' = IF c.ret = 0 THEN ScheduleNow ELSE sched
          /\ life' = IF c.ret = 0 THEN "started" ELSE "init_failed"
  /\ op' = "init"
  /\ UNCHANGED << driver, orb_data, orb_fresh, build, call >>

\* ------------------------------------------------------------------------
\* PCA9685::RunImpl
\* ------------------------------------------------------------------------
\* line 216: the ramp value of this tick
TestValue(t) == IF t > 4096 THEN 0 ELSE t

\* a ramp step of 410
TestStep_roundedup(t) == U16(t + 410)

\* line 224
TestStep(t) == U16(t + 4096 \div 10)

\* a test loop that stops at the first failed write
RECURSIVE TestLoop_stops(_, _, _, _)
TestLoop_stops(c, i, t, orc) ==
  IF i >= NUMBER_PWM_CHANNELS \/ c.ret # OK THEN c
  ELSE TestLoop_stops(setPin(c, i, t, orc), i + 1, t, orc)

\* lines 220-222
RECURSIVE TestLoop(_, _, _, _)
TestLoop(c, i, t, orc) ==
  IF i >= NUMBER_PWM_CHANNELS THEN c
  ELSE TestLoop(setPin(c, i, t, orc), i + 1, t, orc)

\* PeriodAdopted with the lower limit excluded
PeriodAdopted_strict(cur, cmd) ==
  /\ cur # cmd.pwm_period
  /\ cmd.pwm_period > PWM_PERIOD_MIN_US
  /\ cmd.pwm_period <= PWM_PERIOD_MAX_US

\* lines 238-240
PeriodAdopted(cur, cmd) ==
  /\ cur # cmd.pwm_period
  /\ cmd.pwm_period >= PWM_PERIOD_MIN_US
  /\ cmd.pwm_period <= PWM_PERIOD_MAX_US

\* line 246
NewValue(period, width, bld) ==
  FToUint(FMulPow2(FDiv(FFromInt(period), FFromInt(width)), 12), 16, bld)

\* Applies with 4096 let through
Applies_inclusive(new_value, current) == new_value # current /\ new_value <= 4096

\* line 249
Applies(new_value, current) == new_value # current /\ new_value < 4096

\* lines 245-257; s = [c: context, cur: _current_values]

\* _current_values left as it was
StoreCurrent_forgotten(cur, i, new_value) == cur

\* line 251: _current_values[i] = new_value
StoreCurrent(cur, i, new_value) == [cur EXCEPT ![i] = new_value]

RECURSIVE NormalLoop(_, _, _, _, _, _)
NormalLoop(s, i, period, cmd, orc, bld) ==
  IF i >= NUMBER_PWM_CHANNELS THEN s
  ELSE LET new_value == NewValue(period, cmd.pulse_width[i], bld)
           s1 == IF Applies(new_value, s.cur[i])
                 THEN [c |-> setPin(s.c, i, new_value, orc),
                       cur |-> StoreCurrent(s.cur, i, new_value)]
                 ELSE s
       IN NormalLoop(s1, i + 1, period, cmd, orc, bld)

\* the period left as it was
NextPeriod_stale(cur, cmd) == cur

\* the period after lines 238-244
NextPeriod(cur, cmd) == IF PeriodAdopted(cur, cmd) THEN cmd.pwm_period ELSE cur

RunTest(orc) ==
  \E t \in {TestValue(_test_pwm)} :
  \E c \in {TestLoop(Ctx(_comms_errors), 0, t, orc)} :
     /\ c.errs <= MaxErrors
     /\ _test_pwm' = TestStep(t)
     /\ _comms_errors' = c.errs
     /\ bus' = c.bus
     /\ pins' = c.pins
     /\ UNCHANGED << _pca_pwm, _pwm_period_us, _pwm_freq, _current_values,
                     _mode_on_initialized, _updated, orb_data, orb_fresh >>

RunNormal(orc) ==
  /\ _mode_on_initialized' = TRUE
  /\ _updated' = orb_fresh
  /\ IF orb_fresh
     THEN \E cmd \in {orb_data} :
          \E period \in {NextPeriod(_pwm_period_us, cmd)} :
          \E s \in {NormalLoop([c |-> Ctx(_comms_errors), cur |-> _current_values],
                               0, period, cmd, orc, build)} :
             /\ s.c.errs <= MaxErrors
             /\ _pca_pwm' = cmd
             /\ orb_fresh' = FALSE
             /\ _pwm_period_us' = period
             /\ _pwm_freq' = IF PeriodAdopted(_pwm_period_us, cmd)
                             THEN FDiv(FFromInt(1000000), FFromInt(period))
                             ELSE _pwm_freq
             /\ _current_values' = s.cur
             /\ _comms_errors' = s.c.errs
             /\ bus' = s.c.bus
             /\ pins' = s.c.pins
     ELSE /\ orc = AllOk
          /\ bus' = << >>
          /\ pins' = << >>
          /\ UNCHANGED << _pca_pwm, orb_fresh, _pwm_period_us, _pwm_freq,
                          _current_values, _comms_errors >>
  /\ UNCHANGED << _test_pwm, orb_data >>

RunImpl ==
  /\ sched.state = "runnable"
  /\ \E orc \in Oracles :
       IF _mode = IOX_MODE_TEST_OUT THEN RunTest(orc) ELSE RunNormal(orc)
  /\ sched' = ScheduleDelayed(_i2cpwm_interval)
  /\ op' = "RunImpl"
  /\ UNCHANGED << _mode, _i2cpwm_interval, life, ret, build, call >>

\* ------------------------------------------------------------------------
\* PCA9685::custom_method: custom1 = 0 is "reset", 1 is "test"
\* ------------------------------------------------------------------------
\* a reset command that also returns to normal operation
ModeAfter_resetnormal(custom1, mode) ==
  IF custom1 = 1 THEN IOX_MODE_TEST_OUT ELSE IOX_MODE_ON

\* lines 423-427: the mode after the command
ModeAfter(custom1, mode) == IF custom1 = 1 THEN IOX_MODE_TEST_OUT ELSE mode

custom_method ==
  /\ life = "started"
  /\ \E custom1 \in {0, 1}, orc \in Oracles :
       \E c \in {IF custom1 = 0 THEN reset(Ctx(_comms_errors), orc)
                  ELSE Ctx(_comms_errors)} :
          /\ custom1 = 1 => orc = AllOk
          /\ c.errs <= MaxErrors
          /\ _mode' = ModeAfter(custom1, _mode)
          /\ _comms_errors' = c.errs
          /\ bus' = c.bus
          /\ pins' = c.pins
  /\ op' = "custom_method"
  /\ UNCHANGED << _i2cpwm_interval, _pca_pwm, _pwm_period_us, _pwm_freq, _test_pwm,
                  _current_values, _mode_on_initialized, _updated, orb_data,
                  orb_fresh, sched, life, ret, build, call >>

\* ------------------------------------------------------------------------
\* Environment
\* ------------------------------------------------------------------------
\* a step that runs no handler
NoHandler == op' = "none" /\ bus' = << >> /\ pins' = << >>

\* a publisher writes one of cmds to the pca_pwm topic
PublishFrom(cmds) ==
  /\ life # "init_failed"
  /\ \E cmd \in cmds : orb_data' = cmd
  /\ orb_fresh' = TRUE
  /\ NoHandler
  /\ UNCHANGED << driver, _comms_errors, sched, life, ret, build, call >>

Publish == PublishFrom(Commands)

\* the delay of ScheduleDelayed elapses: the work queue will run the item
TimerExpire ==
  /\ sched.state = "armed"
  /\ sched' = [sched EXCEPT !.state = "runnable"]
  /\ NoHandler
  /\ UNCHANGED << driver, _comms_errors, orb_data, orb_fresh, life, ret, build, call >>

Next == DriverInit \/ RunImpl \/ custom_method \/ Publish \/ TimerExpire

Spec == Init /\ [][Next]_vars

\* The same driver under a fair work queue: a runnable item is run and the
\* timer of ScheduleDelayed fires, neither can be postponed for ever.  The
\* publisher here sends two commands only.
FairCommands == { Mixed(20000), Uniform(656, 40000) }
PublishFew == PublishFrom(FairCommands)
FairNext == DriverInit \/ RunImpl \/ custom_method \/ PublishFew \/ TimerExpire
\* RunImpl is enabled exactly when the item is runnable (its guard; a tick
\* on which every transfer succeeds is always possible) and it always changes
\* sched, so WorkQueueFair is WF_vars(RunImpl) with ENABLED written out.
WorkQueueFair == []<><<RunImpl>>_vars \/ []<>(sched.state # "runnable")
FairSpec == Init /\ [][FairNext]_vars /\ WorkQueueFair /\ WF_vars(TimerExpire)

\* ------------------------------------------------------------------------
\* Direct calls of setPin and setPWMFreq on a constructed driver
\* ------------------------------------------------------------------------
PinValues == {0, 1, 2, 409, 2048, 4094, 4095, 4096, 4097, 65535}
Freqs == {24, 50, 200, 1526}
Calls == { [fn |-> "setPin", num |-> n, val |-> v, freq |-> 0, done |-> FALSE] :
             n \in Channels, v \in PinValues }
         \cup { [fn |-> "setPWMFreq", num |-> 0, val |-> 0, freq |-> f, done |-> FALSE] :
                  f \in Freqs }

InitCall == Constructed /\ call \in Calls

Returned(c, name) ==
  /\ _comms_errors' = c.errs
  /\ bus' = c.bus
  /\ pins' = c.pins
  /\ ret' = c.ret
  /\ op' = name
  /\ call' = [call EXCEPT !.done = TRUE]
  /\ UNCHANGED << driver, orb_data, orb_fresh, sched, life, build >>

CallSetPin ==
  /\ call.fn = "setPin" /\ ~call.done
  /\ \E orc \in Oracles :
       \E c \in {setPin(Ctx(_comms_errors), call.num, call.val, orc)} :
          Returned(c, "setPin")

CallSetPWMFreq ==
  /\ call.fn = "setPWMFreq" /\ ~call.done
  /\ \E orc \in InitOracles, chip \in ChipBytes :
       \E c \in {setPWMFreq(Ctx(_comms_errors), FFromInt(call.freq), orc, chip, build)} :
          Returned(c, "setPWMFreq")

NextCall == CallSetPin \/ CallSetPWMFreq

SpecCall == InitCall /\ [][NextCall]_vars

\* ------------------------------------------------------------------------
\* Claims about the direct calls (checked under SpecCall)
\* ------------------------------------------------------------------------
\* the ON and OFF ticks of a 5-byte channel frame, little-endian
FrameOn(t) == t.send[2] + 256 * t.send[3]
FrameOff(t) == t.send[4] + 256 * t.send[5]
\* x with bit k set
SetBit(x, k) == IF (x \div (2 ^ k)) % 2 = 1 THEN x ELSE x + 2 ^ k
SetPinDone == call.fn = "setPin" /\ call.done
SetPWMFreqDone == call.fn = "setPWMFreq" /\ call.done
NoFailure(b) == \A k \in 1 .. Len(b) : ~IsFailed(b[k])

\* C1: setPin(n, v) issues exactly one setPWM write, to channel n's registers,
\* with ticks (4096, 0) if v >= 4095, (0, 4096) if v = 0 and (0, v) otherwise,
\* and returns the result of that write.
C1_SetPinEncoding ==
  SetPinDone =>
    /\ Len(bus) = 1
    /\ bus[1].kind = "xfer" /\ bus[1].recv_len = 0 /\ Len(bus[1].send) = 5
    /\ bus[1].send[1] = 6 + 4 * call.num
    /\ << FrameOn(bus[1]), FrameOff(bus[1]) >> =
         (IF call.val >= 4095 THEN << 4096, 0 >>
          ELSE IF call.val = 0 THEN << 0, 4096 >>
          ELSE << 0, call.val >>)
    /\ ret = bus[1].ret

\* a failed setPin(15, 4097): the clamped case, on the last channel
C1_Witness == SetPinDone /\ call.num = 15 /\ call.val = 4097 /\ ret = -5

\* the transfers and the sleep of a complete setPWMFreq that read old
FreqSequence(old, pre) ==
  << Write(<< 0 >>, OK),
     [kind |-> "xfer", send |-> << >>, recv_len |-> 1, recv |-> << old >>, ret |-> OK],
     Write(<< 0, SetBit(old % 128, 4) >>, OK),
     Write(<< 254, pre >>, OK),
     Write(<< 0, old >>, OK),
     Sleep(5000),
     Write(<< 0, SetBit(SetBit(SetBit(old, 0), 5), 7) >>, OK) >>

\* C2: when no transfer fails, setPWMFreq reads MODE1 (old), writes
\* MODE1 := (old & 0x7F) | 0x10, PRESCALE := prescale, MODE1 := old, waits
\* 5 ms and writes MODE1 := old | 0xA1, in this order, touches nothing else
\* and returns success.
C2_FreqSequence ==
  (SetPWMFreqDone /\ NoFailure(bus)) =>
    /\ Len(bus) = 7
    /\ bus[2].kind = "xfer" /\ Len(bus[2].recv) = 1
    /\ bus[4].kind = "xfer" /\ Len(bus[4].send) = 2 /\ bus[4].send[2] \in 0 .. 255
    /\ bus = FreqSequence(bus[2].recv[1], bus[4].send[2])
    /\ ret = OK

\* a complete sequence on a chip whose MODE1 held 0x91
C2_Witness ==
  /\ SetPWMFreqDone /\ NoFailure(bus) /\ Len(bus) = 7
  /\ bus[2].recv = << 145 >> /\ bus[3].send = << 0, 17 >> /\ bus[7].send = << 0, 177 >>

\* the requests (kind and bytes sent) of a log
Requests(b) == [k \in 1 .. Len(b) |->
                  IF b[k].kind = "xfer" THEN << "xfer", b[k].send, b[k].recv_len >>
                  ELSE << "usleep", b[k].us >>]
IsPrefix(a, b) == Len(a) <= Len(b) /\ \A k \in 1 .. Len(a) : a[k] = b[k]

\* C3: when a step of setPWMFreq fails, the failed transfer is the last thing
\* the call does, its code is returned, the error counter has grown by exactly
\* one, and what was issued before it is the unchanged start of the sequence
\* (nothing is rolled back).
C3_FreqAbort ==
  [][ (call.fn = "setPWMFreq" /\ ~call.done /\ call'.done /\ ~NoFailure(bus')) =>
        LET n == Len(bus')
            old == IF n >= 3 THEN bus'[2].recv[1] ELSE 0
            pre == IF n >= 4 THEN bus'[4].send[2] ELSE 0
        IN /\ IsFailed(bus'[n])
           /\ \A k \in 1 .. n - 1 : ~IsFailed(bus'[k])
           /\ ret' = bus'[n].ret
           /\ ret' # OK
           /\ _comms_errors' = _comms_errors + 1
           /\ IsPrefix(Requests(bus'), Requests(FreqSequence(old, pre)))
    ]_vars

\* the PRESCALE write failed with a timeout: the chip is left asleep
C3_Witness ==
  /\ SetPWMFreqDone /\ Len(bus) = 4 /\ bus[4].send[1] = 254 /\ bus[4].ret = -110
  /\ ret = -110 /\ _comms_errors = 1

\* ------------------------------------------------------------------------
\* Claims about the control loop (checked under Spec, C7 under FairSpec)
\* ------------------------------------------------------------------------
\* the step runs RunImpl
TickStep == op' = "RunImpl"
\* the step runs RunImpl in normal mode and the poll reports a fresh command
NormalFreshTick == TickStep /\ _mode = IOX_MODE_ON /\ orb_fresh
\* the channels a log writes to
Written(b) == { (b[k].send[1] - 6) \div 4 : k \in { j \in 1 .. Len(b) : b[j].kind = "xfer" } }

\* C4: the period starts at 20000 and always lies in [656, 41666]; a normal
\* tick with a fresh command keeps the period when the commanded one is below
\* 656 or above 41666 and takes the commanded one when it is in [656, 41666].
C4_PeriodRange ==
  /\ _pwm_period_us = 20000
  /\ [](_pwm_period_us >= 656 /\ _pwm_period_us <= 41666)
  /\ [][ NormalFreshTick =>
           IF orb_data.pwm_period < 656 \/ orb_data.pwm_period > 41666
           THEN _pwm_period_us' = _pwm_period_us
           ELSE _pwm_period_us' = orb_data.pwm_period ]_vars

\* a tick has refused 41667 after 656 had been adopted
C4_Witness ==
  /\ op = "RunImpl" /\ _mode = IOX_MODE_ON /\ _updated
  /\ _pca_pwm.pwm_period = 41667 /\ _pwm_period_us = 656

\* C5: every value the loop hands to setPin, in either mode, is in 0..4095,
\* and so is every entry of the per-channel table.
C5_DutyRange ==
  /\ \A k \in 1 .. Len(pins) : pins[k][2] >= 0 /\ pins[k][2] <= 4095
  /\ \A i \in Channels : _current_values[i] >= 0 /\ _current_values[i] <= 4095

\* a normal tick has applied some channels and skipped channel 1, whose
\* pulse width equals the period (computed value 4096)
C5_Witness ==
  /\ op = "RunImpl" /\ _mode = IOX_MODE_ON /\ _updated
  /\ _pca_pwm.pulse_width[1] = _pwm_period_us
  /\ pins # << >>
  /\ \A k \in 1 .. Len(pins) : pins[k][1] # 1

\* C6: in normal mode, a fresh command equal to the one the previous tick
\* applied causes no transfer.
C6_Idempotent ==
  [][ (NormalFreshTick /\ _updated /\ orb_data = _pca_pwm) => bus' = << >> ]_vars

\* the command the last tick applied (it changed channel 0) is pending again
C6_Witness ==
  /\ sched.state = "runnable" /\ _mode = IOX_MODE_ON /\ _updated
  /\ orb_fresh /\ orb_data = _pca_pwm
  /\ _current_values[0] # 0

\* C7: every tick, whatever its mode and its transfers' results, ends with
\* the work item armed again; once started the item is never idle; and under
\* a fair work queue a tick always comes again.
C7_AlwaysReschedules ==
  /\ [][ TickStep => sched'.state = "armed" ]_vars
  /\ [](life = "started" => sched.state \in {"armed", "runnable"})
  /\ ((life = "started") ~> (op = "RunImpl"))

\* a tick all of whose transfers failed has armed the work item
C7_Witness ==
  /\ op = "RunImpl" /\ bus # << >> /\ \A k \in 1 .. Len(bus) : IsFailed(bus[k])
  /\ sched.state = "armed"

\* the channels whose write failed in a log
FailedChannels(b) == { (b[k].send[1] - 6) \div 4 : k \in { j \in 1 .. Len(b) : IsFailed(b[j]) } }

\* the transfers of a normal tick that finds the last command fresh again, all
\* of them succeeding, run from the state the step ends in
RetryLog ==
  NormalLoop([c |-> Ctx(_comms_errors'), cur |-> _current_values'], 0,
             NextPeriod(_pwm_period_us', _pca_pwm'), _pca_pwm', AllOk, build').c.bus

\* C8: a channel whose write failed on a normal tick is written again by the
\* next tick, the command being the same.
C8_RetryAfterFailure ==
  [][ NormalFreshTick => FailedChannels(bus') \subseteq Written(RetryLog) ]_vars

\* C9: after every tick the work item is armed with the current period.
C9_DelayIsPeriod == op = "RunImpl" => sched.delay = _pwm_period_us

\* the pins of a test tick with ramp value v
TestPins(v) == [k \in 1 .. 16 |-> << k - 1, v >>]

\* C10: the mode starts normal; it changes only from normal to test and only
\* by the test command (which issues no transfer, unlike reset); the test
\* command leaves the driver in test mode; and a tick in test mode runs the
\* ramp on all channels and leaves the topic and the copied command alone.
C10_ModeSwitch ==
  /\ _mode = IOX_MODE_ON
  /\ [][ /\ _mode' # _mode =>
              /\ op' = "custom_method" /\ bus' = << >>
              /\ _mode = IOX_MODE_ON /\ _mode' = IOX_MODE_TEST_OUT
         /\ (op' = "custom_method" /\ bus' = << >>) => _mode' = IOX_MODE_TEST_OUT
         /\ (TickStep /\ _mode = IOX_MODE_TEST_OUT) =>
              /\ Len(pins') = 16 /\ pins' = TestPins(pins'[1][2])
              /\ orb_fresh' = orb_fresh /\ orb_data' = orb_data
              /\ _pca_pwm' = _pca_pwm /\ _updated' = _updated
       ]_vars

\* a test tick has run while a command was pending, and the command still is
C10_Witness ==
  /\ op = "RunImpl" /\ _mode = IOX_MODE_TEST_OUT /\ orb_fresh
  /\ _mode_on_initialized /\ Len(pins) = 16

\* ------------------------------------------------------------------------
\* Further claims about the driver as a whole (checked under Spec)
\* ------------------------------------------------------------------------
\* the number of failed transfers in a log
Failures(b) == Cardinality({ k \in 1 .. Len(b) : IsFailed(b[k]) })

\* C11: the error counter starts at 0 and every step (init, a tick in either
\* mode, reset, the test command, a publication, a timer expiry) adds to it
\* exactly the number of transfers that failed in the step: so it equals the
\* number of failed transfers so far, never decreases and is never reset.
C11_ErrorCounter ==
  /\ _comms_errors = 0
  /\ [][ _comms_errors' = _comms_errors + Failures(bus') ]_vars

\* a reset command has succeeded after two failed transfers: the counter
\* still reads 2
C11_Witness ==
  /\ op = "custom_method" /\ Len(bus) = 1 /\ ~IsFailed(bus[1])
  /\ _comms_errors = 2

\* ------------------------------------------------------------------------
\* Direct calls of setPWM on a constructed driver
\* ------------------------------------------------------------------------
TickCounts == {0, 1, 255, 256, 409, 2048, 4095, 4096}
\* every channel with the tick counts above, and the first and last channel
\* with every count from 0 to 4096 on one side
PWMArgs == (Channels \X TickCounts \X TickCounts)
           \cup ({0, 15} \X (0 .. 4096) \X {0, 4096})
           \cup ({0, 15} \X {0, 4096} \X (0 .. 4096))
PWMCalls == { [fn |-> "setPWM", num |-> x[1], on |-> x[2], off |-> x[3], done |-> FALSE] :
                x \in PWMArgs }

InitPWM == Constructed /\ call \in PWMCalls

CallSetPWM ==
  /\ call.fn = "setPWM" /\ ~call.done
  /\ \E orc \in Oracles :
       \E c \in {setPWM(Ctx(_comms_errors), call.num, call.on, call.off, orc)} :
          Returned(c, "setPWM")

SpecPWM == InitPWM /\ [][CallSetPWM]_vars

SetPWMDone == call.fn = "setPWM" /\ call.done
\* the four registers a channel frame writes, starting at its address byte
Block(t) == t.send[1] .. t.send[1] + 3
\* the frame setPWM sends for channel m
FrameOf(m) == setPWM(Ctx(0), m, 0, 0, AllOk).bus[1]

\* C12: setPWM(N, on, off) issues exactly one transfer, a write of the five
\* bytes 6 + 4N, on mod 256, on div 256, off mod 256, off div 256; the frame
\* decodes back to (N, on, off); the register blocks of different channels
\* do not overlap.
C12_Frame ==
  SetPWMDone =>
    /\ Len(bus) = 1
    /\ bus[1].kind = "xfer" /\ bus[1].recv_len = 0
    /\ bus[1].send = << 6 + 4 * call.num, call.on % 256, call.on \div 256,
                        call.off % 256, call.off \div 256 >>
    /\ (bus[1].send[1] - 6) % 4 = 0 /\ (bus[1].send[1] - 6) \div 4 = call.num
    /\ FrameOn(bus[1]) = call.on /\ FrameOff(bus[1]) = call.off
    /\ \A m \in Channels \ {call.num} : Block(bus[1]) \cap Block(FrameOf(m)) = {}
    /\ ret = bus[1].ret

\* setPWM(15, 4096, 409) has returned OK
C12_Witness ==
  /\ SetPWMDone /\ call.num = 15 /\ call.on = 4096 /\ call.off = 409 /\ ret = OK

\* ------------------------------------------------------------------------
\* Direct calls of setPWMFreq with every whole frequency of the chip's range
\* ------------------------------------------------------------------------
ChipFreqs == 24 .. 1526
FreqCalls == { [fn |-> "setPWMFreq", num |-> 0, val |-> 0, freq |-> f, done |-> FALSE] :
                 f \in ChipFreqs }

InitFreq == Constructed /\ call \in FreqCalls

SpecFreq == InitFreq /\ [][CallSetPWMFreq]_vars

\* 25000000 / 4096 / f rounded to the nearest integer (0.5 added, then
\* truncated), less one, in exact arithmetic
RoundedPrescale(f) == (2 * 25000000 + 4096 * f) \div (2 * 4096 * f) - 1

\* C13: for a whole frequency f in 24..1526 the byte setPWMFreq writes to the
\* PRESCALE register is round(25000000 / 4096 / f) - 1, it lies in 3..255,
\* and it is 121 for 50 Hz.
C13_Prescale ==
  (SetPWMFreqDone /\ Len(bus) >= 4) =>
    /\ bus[4].kind = "xfer" /\ Len(bus[4].send) = 2
    /\ bus[4].send[1] = PCA9685_PRESCALE
    /\ bus[4].send[2] = RoundedPrescale(call.freq)
    /\ bus[4].send[2] >= 3 /\ bus[4].send[2] <= 255
    /\ call.freq = 50 => bus[4].send[2] = 121

\* setPWMFreq(50) has completed and written 121 to PRESCALE
C13_Witness ==
  /\ SetPWMFreqDone /\ call.freq = 50 /\ ret = OK /\ Len(bus) = 7
  /\ bus[4].send = << 254, 121 >>

\* the channels a log wrote to with success
Succeeded(b) ==
  { (b[k].send[1] - 6) \div 4 : k \in { j \in 1 .. Len(b) : IsXfer(b[j]) /\ ~IsFailed(b[j]) } }

\* C14: the per-channel table starts at 0 and a step changes a channel's entry
\* only if the step wrote that channel with success; a failed write leaves
\* the entry as it was.
C14_StoreAfterSuccess ==
  /\ \A i \in Channels : _current_values[i] = 0
  /\ [][ \A i \in Channels :
           _current_values'[i] # _current_values[i] => i \in Succeeded(bus') ]_vars

\* channel and computed duty, for the sixteen channels in ascending order
Duties(period, cmd, bld) ==
  [k \in 1 .. NUMBER_PWM_CHANNELS |-> << k - 1, NewValue(period, cmd.pulse_width[k - 1], bld) >>]

\* C15: on a normal tick with a fresh command the setPin calls are, in
\* ascending channel order, exactly those channels whose duty (computed with
\* the commanded period if it is in [656, 41666], else with the period kept)
\* differs from the table entry and is below 4096; each call issues one
\* transfer to its channel whether or not earlier ones failed; a channel
\* whose pulse width equals the period is not applied.
C15_ApplyRule ==
  [][ NormalFreshTick =>
        LET p == IF orb_data.pwm_period >= 656 /\ orb_data.pwm_period <= 41666
                 THEN orb_data.pwm_period ELSE _pwm_period_us
            exp == SelectSeq(Duties(p, orb_data, build),
                             LAMBDA x : x[2] # _current_values[x[1]] /\ x[2] < 4096)
        IN /\ pins' = exp
           /\ Len(bus') = Len(exp)
           /\ \A k \in 1 .. Len(exp) :
                IsXfer(bus'[k]) /\ bus'[k].send[1] = 6 + 4 * exp[k][1]
           /\ \A i \in Channels :
                orb_data.pulse_width[i] = p => \A k \in 1 .. Len(exp) : exp[k][1] # i
    ]_vars

\* a tick whose first write failed has gone on to write a later channel, and
\* has skipped channel 1, whose pulse width equals the period
C15_Witness ==
  /\ op = "RunImpl" /\ _mode = IOX_MODE_ON /\ _updated
  /\ Len(bus) >= 2 /\ IsFailed(bus[1]) /\ ~IsFailed(bus[2])
  /\ _pca_pwm.pulse_width[1] = _pwm_period_us
  /\ \A k \in 1 .. Len(pins) : pins[k][1] # 1

\* ------------------------------------------------------------------------
\* The duty computation of line 246 applied to chosen periods and widths
\* ------------------------------------------------------------------------
DutyPeriods == {656, 20000, 41666}
DutyWidths == {1, 3, 656, 2000, 10000, 20000, 30000, 41666, 50000, 65535}
DutyCalls == { [fn |-> "new_value", period |-> p, width |-> w, done |-> FALSE] :
                 p \in DutyPeriods, w \in DutyWidths }

InitDuty == Constructed /\ call \in DutyCalls

CallNewValue ==
  /\ call.fn = "new_value" /\ ~call.done
  /\ ret' = NewValue(call.period, call.width, build)
  /\ op' = "new_value"
  /\ call' = [call EXCEPT !.done = TRUE]
  /\ UNCHANGED << driver, _comms_errors, orb_data, orb_fresh, sched, life, bus, pins, build >>

SpecDuty == InitDuty /\ [][CallNewValue]_vars

\* p / w * 4096 rounded to the nearest integer, in exact arithmetic
RoundedDuty(p, w) == (2 * 4096 * p + w) \div (2 * w)

\* C16: for a period p in [656, 41666] and a pulse width w in 1..65535 the
\* duty the loop computes is p / w * 4096 rounded to the nearest integer.
C16_DutyRounded ==
  (call.fn = "new_value" /\ call.done) => ret = RoundedDuty(call.period, call.width)

\* the log entry is a write to one of the channel registers 6..69
ChannelWrite(t) ==
  /\ IsXfer(t) /\ t.recv_len = 0 /\ Len(t.send) = 5
  /\ t.send[1] >= LED0_ON_L /\ t.send[1] <= LED0_ON_L + 4 * (NUMBER_PWM_CHANNELS - 1)
\* the log entry addresses register r
Addresses(t, r) == IsXfer(t) /\ t.send # << >> /\ t.send[1] = r

\* C17: a tick, in either mode, issues only channel writes: no transfer to
\* MODE1 or PRESCALE and no sleep; the PRESCALE register and the 5 ms sleep
\* occur in init only; a tick that adopts a period stores it and the
\* frequency 1000000 / period.
C17_NoReconfigure ==
  [][ /\ TickStep => \A k \in 1 .. Len(bus') : ChannelWrite(bus'[k])
      /\ (\E k \in 1 .. Len(bus') :
            Addresses(bus'[k], PCA9685_PRESCALE) \/ bus'[k].kind = "usleep")
           => op' = "init"
      /\ (TickStep /\ _pwm_period_us' # _pwm_period_us) =>
           /\ _pwm_period_us' = orb_data.pwm_period
           /\ _pwm_freq' = FDiv(FFromInt(1000000), FFromInt(orb_data.pwm_period))
    ]_vars

\* a tick has adopted the period 656 and written channels
C17_Witness ==
  /\ op = "RunImpl" /\ _mode = IOX_MODE_ON /\ _updated
  /\ _pca_pwm.pwm_period = 656 /\ _pwm_period_us = 656
  /\ _pwm_freq = FDiv(FFromInt(1000000), FFromInt(656))
  /\ Len(bus) = NUMBER_PWM_CHANNELS

\* C18: a tick in test mode calls setPin once per channel, 0 to 15 in order,
\* all with one value, and each call issues its transfer whether or not
\* earlier ones failed; the tick leaves the table, the period, the frequency,
\* the copied command and the pending command as they were.
C18_TestWritesAll ==
  [][ (TickStep /\ _mode = IOX_MODE_TEST_OUT) =>
        /\ Len(pins') = NUMBER_PWM_CHANNELS
        /\ \A k \in 1 .. NUMBER_PWM_CHANNELS :
             pins'[k][1] = k - 1 /\ pins'[k][2] = pins'[1][2]
        /\ Len(bus') = NUMBER_PWM_CHANNELS
        /\ \A k \in 1 .. NUMBER_PWM_CHANNELS :
             ChannelWrite(bus'[k]) /\ bus'[k].send[1] = 6 + 4 * (k - 1)
        /\ UNCHANGED << _current_values, _pwm_period_us, _pwm_freq, _pca_pwm,
                        _updated, orb_data, orb_fresh >>
    ]_vars

\* a test tick whose first write failed has written all sixteen channels,
\* with a command pending and a table that holds an applied value
C18_Witness ==
  /\ op = "RunImpl" /\ _mode = IOX_MODE_TEST_OUT
  /\ Len(bus) = NUMBER_PWM_CHANNELS /\ IsFailed(bus[1]) /\ ~IsFailed(bus[16])
  /\ orb_fresh /\ _current_values[0] # 0

\* the step is a tick in test mode
TestTick == TickStep /\ _mode = IOX_MODE_TEST_OUT
\* the eleven values of the ramp: 0, 409, ..., 4090
Ramp == { 409 * k : k \in 0 .. 10 }

\* C19: the ramp starts at 0; a test tick applies the ramp value, or 0 if the
\* ramp value exceeds 4096, and leaves the ramp 409 above what it applied;
\* nothing else changes the ramp.  So the values applied are 0, 409, ...,
\* 4090 and then 0 again, a cycle of eleven ticks, and after the first test
\* tick the ramp is 409.
C19_Ramp ==
  /\ _test_pwm = 0
  /\ [][ IF TestTick
         THEN LET v == pins'[1][2]
              IN /\ v = (IF _test_pwm > 4096 THEN 0 ELSE _test_pwm)
                 /\ v \in Ramp
                 /\ _test_pwm' = v + 409
                 /\ (v = 4090 => _test_pwm' > 4096)
         ELSE _test_pwm' = _test_pwm ]_vars

\* the test tick at the top of the ramp: 4090 applied, the ramp stands at 4499
C19_Witness ==
  /\ op = "RunImpl" /\ _mode = IOX_MODE_TEST_OUT
  /\ Len(pins) = NUMBER_PWM_CHANNELS /\ pins[1][2] = 4090 /\ _test_pwm = 4499

\* the step is a tick in normal mode whose poll finds nothing new
NormalIdleTick == TickStep /\ _mode = IOX_MODE_ON /\ ~orb_fresh

\* C20: a normal tick whose poll reports no fresh command issues no transfer
\* and no setPin, leaves the period, the frequency, the table, the mode, the
\* error counter, the copied command and the ramp as they were, and arms the
\* work item again.  (The poll itself records its result in _updated and the
\* first tick marks the subscription as made.)
C20_IdleTick ==
  [][ NormalIdleTick =>
        /\ bus' = << >> /\ pins' = << >>
        /\ UNCHANGED << _pwm_period_us, _pwm_freq, _current_values, _mode,
                        _comms_errors, _pca_pwm, _test_pwm, orb_data, orb_fresh,
                        _i2cpwm_interval, life >>
        /\ _updated' = FALSE /\ _mode_on_initialized' = TRUE
        /\ sched'.state = "armed"
    ]_vars

\* a normal tick has found nothing new, after ticks that applied a value and
\* met a failed transfer
C20_Witness ==
  /\ op = "RunImpl" /\ _mode = IOX_MODE_ON /\ ~_updated /\ ~orb_fresh
  /\ bus = << >> /\ sched.state = "armed"
  /\ _current_values[0] # 0 /\ _comms_errors > 0 /\ _pwm_period_us = 656

====
